---- MODULE Spec2Model ----
(***************************************************************************)
(* A model of palp.py: the Layout cost function, the finite-difference     *)
(* gradient and the adaptive steepest-descent loop of Layout.anneal, the   *)
(* interval primitive get_overlap and the bounding union of Rectangles.    *)
(*                                                                         *)
(* Numbers.  The program computes in floating point.  The model computes   *)
(* on an integer grid: every coordinate, width and height is a whole       *)
(* number of grid units, and the three lengths of the solver (delta,       *)
(* min_movement, max_movement) are whole numbers of grid units that keep   *)
(* the program's order delta < min_movement < max_movement.  Widths and    *)
(* heights are even, so that width / 2 is exact.  The dimensionless        *)
(* constants (the two penalties, the iteration cap, the cutback factor and *)
(* the tangency thresholds) have the program's values.  A unit vector is   *)
(* held in fixed point with UnitScale parts per 1.0, and a product or a    *)
(* quotient is rounded to the nearest grid value, as a float operation is  *)
(* rounded to the nearest float.                                           *)
(*                                                                         *)
(* Objects.  Point2D objects live in a heap (a sequence of points); a      *)
(* Label holds references into it, so that sharing a point between two     *)
(* fields is something the model can express.                              *)
(***************************************************************************)
EXTENDS Integers, Sequences, FiniteSets, TLC

VARIABLES
    heap,             \* the Point2D objects: heap[r] = [x |-> .., y |-> ..]
    labels,           \* Layout.labels: sequence of Label records
    keepouts,         \* Layout.keepouts: sequence of Label records
    pc,               \* position of the script / of Layout.anneal
    iteration,        \* loop variable of the outer for loop
    movement,         \* last movement amount
    cost,             \* cost measured at the start of the iteration
    unknowns,         \* snapshot taken by get_unknowns()
    dcost,            \* gradient, then descent direction
    i,                \* index of the unknown being perturbed (0-based)
    pos_cost,
    neg_cost,
    starting_cost,
    dcost_norm,
    descent_vectors,  \* directions of steepest descent of every iteration
    tangency,
    new_cost,
    cost_evaluations, \* get_cost calls made since the last get_unknowns()
    stdout,           \* the lines printed so far
    returned,         \* the values anneal() handed back (<<>> is None)
    bounds,           \* result of get_bounds(), <<>> before the call
    ov_pc,            \* position of a stand-alone get_overlap call
    ov_args,          \* its arguments <<a, b, c, d>>
    ov_ret            \* its return value

vars == <<heap, labels, keepouts, pc, iteration, movement, cost, unknowns,
          dcost, i, pos_cost, neg_cost, starting_cost, dcost_norm,
          descent_vectors, tangency, new_cost, cost_evaluations, stdout,
          returned, bounds, ov_pc, ov_args, ov_ret>>

anneal_locals == <<iteration, movement, cost, unknowns, dcost, i, pos_cost,
                   neg_cost, starting_cost, dcost_norm, descent_vectors,
                   tangency, new_cost, cost_evaluations>>

overlap_vars == <<ov_pc, ov_args, ov_ret>>

(***************************************************************************)
(* Program constants.                                                      *)
(***************************************************************************)
penalty_intersection == 1000

penalty_keepout == 1000000

\* perturbation distance, in grid units
delta == 1

\* minimum distance to move, in grid units
min_movement == 2

\* maximum distance to move a label per iteration, in grid units
max_movement == 8

max_iteration_count == 100

\* movement_cutback is 0.5 = 1 / movement_cutback_den
movement_cutback_den == 2

(***************************************************************************)
(* Bounds of the model.                                                    *)
(***************************************************************************)
\* fixed-point resolution of a unit vector component
UnitScale == 1000

\* largest mantissa kept when a norm is taken (keeps squares in range)
NormRange == 10000

\* anchors of the small layouts have coordinates in {0, MaxAnchor}
MaxAnchor == 3

\* the small layouts have 1..MaxLabels labels
MaxLabels == 2

\* interval end points of the stand-alone get_overlap calls are in 0..MaxEnd
MaxEnd == 14

(***************************************************************************)
(* Arithmetic helpers.                                                     *)
(***************************************************************************)
min(a, b) == IF a <= b THEN a ELSE b

max(a, b) == IF a >= b THEN a ELSE b

abs(a) == IF a >= 0 THEN a ELSE -a

\* n / d rounded to the nearest integer, halves away from zero (d > 0)
Round(n, d) ==
    IF n >= 0 THEN (2 * n + d) \div (2 * d)
    ELSE -((2 * (-n) + d) \div (2 * d))

\* n / d truncated toward zero (d > 0)
Trunc(n, d) == IF n >= 0 THEN n \div d ELSE -((-n) \div d)

RECURSIVE SqrtSearch(_, _, _)
SqrtSearch(n, lo, hi) ==
    IF lo >= hi THEN lo
    ELSE LET mid == (lo + hi + 1) \div 2
         IN  IF mid * mid <= n THEN SqrtSearch(n, mid, hi)
             ELSE SqrtSearch(n, lo, mid - 1)

\* math.sqrt on the grid: the integer square root
sqrt(n) == SqrtSearch(n, 0, 46340)

RECURSIVE SumSeq(_)
SumSeq(s) == IF s = <<>> THEN 0 ELSE Head(s) + SumSeq(Tail(s))

RECURSIVE MaxAbs(_)
MaxAbs(s) == IF s = <<>> THEN 0 ELSE max(abs(Head(s)), MaxAbs(Tail(s)))

(***************************************************************************)
(* get_overlap and Rectangle.                                              *)
(***************************************************************************)
\* a plausible slip: the second operand of min forgotten
get_overlap_one_sided(a, b, c, d) == max(0, b - c)

\* a plausible slip: the length of the intersection of the two intervals
get_overlap_intersection(a, b, c, d) == max(0, min(b, d) - max(a, c))

get_overlap(a, b, c, d) == max(0, min(b - c, d - a))

Point2D(x, y) == [x |-> x, y |-> y]

Rectangle(bottom_left, top_right) ==
    [bottom_left |-> bottom_left, top_right |-> top_right]

overlap_with(self, other) ==
    min(get_overlap(self.bottom_left.x, self.top_right.x,
                    other.bottom_left.x, other.top_right.x),
        get_overlap(self.bottom_left.y, self.top_right.y,
                    other.bottom_left.y, other.top_right.y))

is_empty(self) ==
    \/ self.bottom_left.x >= self.top_right.x
    \/ self.bottom_left.y >= self.top_right.y

\* the result is a value here; in the program it is a shallow copy of one
\* of the two temporaries built by get_bounds
get_bound(one, two) ==
    IF is_empty(one) THEN two
    ELSE IF is_empty(two) THEN one
    ELSE Rectangle(Point2D(min(one.bottom_left.x, two.bottom_left.x),
                           min(one.bottom_left.y, two.bottom_left.y)),
                   Point2D(max(one.top_right.x, two.top_right.x),
                           max(one.top_right.y, two.top_right.y)))

(***************************************************************************)
(* Label.                                                                  *)
(***************************************************************************)
\* a plausible slip: location shares the anchor's Point2D instead of a copy
Label__init__shared(h, optimal, width, height, text) ==
    [heap |-> h,
     self |-> [optimal |-> optimal, location |-> optimal,
               width |-> width, height |-> height, text |-> text]]

\* optimal is a reference to an existing point; copy.copy allocates a new one
Label__init__(h, optimal, width, height, text) ==
    [heap |-> Append(h, h[optimal]),
     self |-> [optimal |-> optimal, location |-> Len(h) + 1,
               width |-> width, height |-> height, text |-> text]]

get_rectangle(h, self) ==
    Rectangle(Point2D(h[self.location].x - (self.width \div 2),
                      h[self.location].y - (self.height \div 2)),
              Point2D(h[self.location].x + (self.width \div 2),
                      h[self.location].y + (self.height \div 2)))

\* optimal.distance_to(location) ** 2
distance_squared(p, q) == (p.x - q.x) * (p.x - q.x) + (p.y - q.y) * (p.y - q.y)

(***************************************************************************)
(* Layout: cost, unknowns, bounds.  The operators read the Layout's label  *)
(* and keepout lists and take the heap as a parameter.                     *)
(***************************************************************************)
\* label-label pairs in the order of the two nested loops of get_cost
LabelPairs ==
    LET n == Len(labels)
        all == [k \in 1..(n * n) |-> <<((k - 1) \div n) + 1, ((k - 1) % n) + 1>>]
        Upper(p) == p[1] < p[2]
    IN  SelectSeq(all, Upper)

\* (label, keepout) pairs in the order of the two nested loops of get_cost
KeepoutPairs ==
    LET n == Len(labels)
        m == Len(keepouts)
    IN  [k \in 1..(n * m) |-> <<((k - 1) \div m) + 1, ((k - 1) % m) + 1>>]

LabelOverlap(h, p) ==
    overlap_with(get_rectangle(h, labels[p[1]]), get_rectangle(h, labels[p[2]]))

KeepoutOverlap(h, p) ==
    overlap_with(get_rectangle(h, labels[p[1]]),
                 get_rectangle(h, keepouts[p[2]]))

get_cost(h) ==
    LET distance == [k \in 1..Len(labels) |->
                        distance_squared(h[labels[k].optimal],
                                         h[labels[k].location])]
        intersection == [k \in 1..Len(LabelPairs) |->
                            penalty_intersection
                              * LabelOverlap(h, LabelPairs[k])
                              * LabelOverlap(h, LabelPairs[k])]
        keepout == [k \in 1..Len(KeepoutPairs) |->
                       penalty_keepout
                         * KeepoutOverlap(h, KeepoutPairs[k])
                         * KeepoutOverlap(h, KeepoutPairs[k])]
    IN  SumSeq(distance) + SumSeq(intersection) + SumSeq(keepout)

Line(msg, args) == [msg |-> msg, args |-> args]

\* the lines get_cost(verbose=True) prints (indices are 0-based, as printed)
get_cost_verbose(h) ==
    LET LabelHit(p) == LabelOverlap(h, p) # 0
        KeepoutHit(p) == KeepoutOverlap(h, p) # 0
        lhits == SelectSeq(LabelPairs, LabelHit)
        khits == SelectSeq(KeepoutPairs, KeepoutHit)
    IN  [k \in 1..Len(lhits) |->
            Line("- overlap between %d and %d by %g",
                 <<lhits[k][1] - 1, lhits[k][2] - 1, LabelOverlap(h, lhits[k])>>)]
        \o
        [k \in 1..Len(khits) |->
            Line("- keepout violation on %d and %d by %g",
                 <<khits[k][1] - 1, khits[k][2] - 1,
                   KeepoutOverlap(h, khits[k])>>)]

\* element index + 1 of the result is unknown number index (0-based in the
\* program, sequences are 1-based here)
get_unknowns(h) ==
    [k \in 1..(2 * Len(labels)) |->
        IF (k - 1) % 2 = 0 THEN h[labels[((k - 1) \div 2) + 1].location].x
        ELSE h[labels[((k - 1) \div 2) + 1].location].y]

\* a plausible slip: the parity test dropped, x is always the one adjusted
adjust_unknown_x_only(h, index, amount) ==
    [h EXCEPT ![labels[(index \div 2) + 1].location].x = @ + amount]

adjust_unknown(h, index, amount) ==
    IF index % 2 = 0
    THEN [h EXCEPT ![labels[(index \div 2) + 1].location].x = @ + amount]
    ELSE [h EXCEPT ![labels[(index \div 2) + 1].location].y = @ + amount]

\* a plausible slip: the restore forgotten
restore_unknown_forgotten(h, index, u) == h

restore_unknown(h, index, u) ==
    IF index % 2 = 0
    THEN [h EXCEPT ![labels[(index \div 2) + 1].location].x = u[index + 1]]
    ELSE [h EXCEPT ![labels[(index \div 2) + 1].location].y = u[index + 1]]

RECURSIVE adjust_all(_, _, _, _)
\* for i in range(len(unknowns)): adjust_unknown(i, movement * dcost[i])
adjust_all(h, index, m, d) ==
    IF index >= Len(d) THEN h
    ELSE adjust_all(adjust_unknown(h, index, Round(m * d[index + 1], UnitScale)),
                    index + 1, m, d)

RECURSIVE restore_all(_, _, _)
\* for i in range(len(unknowns)): restore_unknown(i, unknowns)
restore_all(h, index, u) ==
    IF index >= Len(u) THEN h
    ELSE restore_all(restore_unknown(h, index, u), index + 1, u)

RECURSIVE bound_of(_)
\* the while loop of get_bounds: fold get_bound over the list from the left
bound_of(rectangles) ==
    IF Len(rectangles) >= 2
    THEN bound_of(<<get_bound(rectangles[1], rectangles[2])>>
                  \o SubSeq(rectangles, 3, Len(rectangles)))
    ELSE rectangles[1]

rectangles_of(h) ==
    [k \in 1..Len(labels) |-> get_rectangle(h, labels[k])]
    \o [k \in 1..Len(keepouts) |-> get_rectangle(h, keepouts[k])]

get_bounds(h) ==
    IF Len(rectangles_of(h)) = 0
    THEN Rectangle(Point2D(0, 0), Point2D(0, 0))
    ELSE bound_of(rectangles_of(h))

(***************************************************************************)
(* Construction.                                                           *)
(***************************************************************************)
RECURSIVE make_labels(_, _, _)
\* Label(Point2D(x, y), width, height, text) for every entry of args
make_labels(h, made, args) ==
    IF Len(args) = 0 THEN [heap |-> h, made |-> made]
    ELSE LET a == Head(args)
             h1 == Append(h, Point2D(a.x, a.y))
             r == Label__init__(h1, Len(h1), a.width, a.height, a.text)
         IN  make_labels(r.heap, Append(made, r.self), Tail(args))

Layout__init__(label_args, keepout_args) ==
    LET ls == make_labels(<<>>, <<>>, label_args)
        ks == make_labels(ls.heap, <<>>, keepout_args)
    IN  [heap |-> ks.heap, labels |-> ls.made, keepouts |-> ks.made]

LabelArg(x, y, width, height) ==
    [x |-> x, y |-> y, width |-> width, height |-> height, text |-> ""]

SmallSizes == {<<0, 4>>, <<4, 4>>, <<8, 8>>}

SmallLabels ==
    {LabelArg(x, y, s[1], s[2]) : x \in {0, MaxAnchor}, y \in {0, MaxAnchor},
                                  s \in SmallSizes}

SmallLabelLists == UNION {[1..n -> SmallLabels] : n \in 1..MaxLabels}

SmallKeepoutLists == {<<>>, <<LabelArg(2, 2, 4, 4)>>}

\* two large labels that overlap deeply: the solver needs more than
\* max_iteration_count steps of max_movement to pull them apart
WideLabelList == <<LabelArg(0, 0, 1400, 1400), LabelArg(20, 0, 1400, 1400)>>

LayoutInputs ==
    (SmallLabelLists \X SmallKeepoutLists) \cup {<<WideLabelList, <<>>>>}

InitLocals ==
    /\ iteration = 0
    /\ movement = 0
    /\ cost = 0
    /\ unknowns = <<>>
    /\ dcost = <<>>
    /\ i = 0
    /\ pos_cost = 0
    /\ neg_cost = 0
    /\ starting_cost = 0
    /\ dcost_norm = 0
    /\ descent_vectors = <<>>
    /\ tangency = 0
    /\ new_cost = 0
    /\ cost_evaluations = 0
    /\ stdout = <<>>
    /\ returned = <<>>
    /\ bounds = <<>>

\* problem = Layout()
Init ==
    /\ \E input \in LayoutInputs :
          LET layout == Layout__init__(input[1], input[2])
          IN  /\ heap = layout.heap
              /\ labels = layout.labels
              /\ keepouts = layout.keepouts
    /\ pc = "anneal"
    /\ InitLocals
    /\ ov_pc = "unused"
    /\ ov_args = <<0, 0, 0, 0>>
    /\ ov_ret = 0

(***************************************************************************)
(* Numeric steps of Layout.anneal.                                         *)
(***************************************************************************)
\* a float keeps a bounded mantissa: the vector is scaled by Exponent(v)
\* before its components are squared
Exponent(v) == (MaxAbs(v) \div NormRange) + 1

Mantissa(v) == [k \in 1..Len(v) |-> Trunc(v[k], Exponent(v))]

\* math.sqrt(sum(x * x for x in dcost))
norm(v) ==
    Exponent(v) * sqrt(SumSeq([k \in 1..Len(v) |-> Mantissa(v)[k] * Mantissa(v)[k]]))

\* [-x / dcost_norm for x in dcost], in fixed point (nrm # 0)
unit_vector(v, nrm) ==
    [k \in 1..Len(v) |->
        Round(-(Mantissa(v)[k] * UnitScale), nrm \div Exponent(v))]

\* sum(x * y for x, y in zip(a, b)), in units of 1 / UnitScale^2
dot(a, b) == SumSeq([k \in 1..Len(a) |-> a[k] * b[k]])

\* a plausible slip: the zero-gradient test left out
dcost_norm_is_zero_never(n) == FALSE

\* dcost_norm == 0.0
dcost_norm_is_zero(n) == n = 0

\* a plausible slip: a cutback factor of 1
cutback_by_one(m) == m

\* movement *= movement_cutback
cutback(m) == m \div movement_cutback_den

(***************************************************************************)
(* The script: problem.anneal(), then problem.draw().                      *)
(***************************************************************************)
\* def anneal(self): the assignments before the loop
AnnealCall ==
    /\ pc = "anneal"
    /\ movement' = max_movement
    /\ descent_vectors' = <<>>
    /\ iteration' = 0
    /\ pc' = "for"
    /\ UNCHANGED <<heap, labels, keepouts, cost, unknowns, dcost, i, pos_cost,
                   neg_cost, starting_cost, dcost_norm, tangency, new_cost,
                   cost_evaluations, stdout, returned, bounds, overlap_vars>>

\* top of the loop body: print, measure the cost, take the snapshot
IterationStart ==
    /\ pc = "for"
    /\ stdout' = stdout \o <<Line("On iteration %d:", <<iteration>>)>>
                        \o get_cost_verbose(heap)
    /\ cost' = get_cost(heap)
    /\ dcost' = [k \in 1..(2 * Len(labels)) |-> 0]
    /\ unknowns' = get_unknowns(heap)
    /\ cost_evaluations' = 0
    /\ i' = 0
    /\ pc' = IF 2 * Len(labels) > 0 THEN "grad_pos_adjust" ELSE "norm"
    /\ UNCHANGED <<heap, labels, keepouts, iteration, movement, pos_cost,
                   neg_cost, starting_cost, dcost_norm, descent_vectors,
                   tangency, new_cost, returned, bounds, overlap_vars>>

\* self.adjust_unknown(i, self.delta)
GradAdjustPos ==
    /\ pc = "grad_pos_adjust"
    /\ heap' = adjust_unknown(heap, i, delta)
    /\ pc' = "grad_pos_cost"
    /\ UNCHANGED <<labels, keepouts, anneal_locals, stdout, returned, bounds,
                   overlap_vars>>

\* pos_cost = self.get_cost()
GradPosCost ==
    /\ pc = "grad_pos_cost"
    /\ pos_cost' = get_cost(heap)
    /\ cost_evaluations' = cost_evaluations + 1
    /\ pc' = "grad_pos_restore"
    /\ UNCHANGED <<heap, labels, keepouts, iteration, movement, cost, unknowns,
                   dcost, i, neg_cost, starting_cost, dcost_norm,
                   descent_vectors, tangency, new_cost, stdout, returned,
                   bounds, overlap_vars>>

\* self.restore_unknown(i, unknowns)
GradPosRestore ==
    /\ pc = "grad_pos_restore"
    /\ heap' = restore_unknown(heap, i, unknowns)
    /\ pc' = "grad_neg_adjust"
    /\ UNCHANGED <<labels, keepouts, anneal_locals, stdout, returned, bounds,
                   overlap_vars>>

\* self.adjust_unknown(i, -self.delta)
GradAdjustNeg ==
    /\ pc = "grad_neg_adjust"
    /\ heap' = adjust_unknown(heap, i, -delta)
    /\ pc' = "grad_neg_cost"
    /\ UNCHANGED <<labels, keepouts, anneal_locals, stdout, returned, bounds,
                   overlap_vars>>

\* neg_cost = self.get_cost()
GradNegCost ==
    /\ pc = "grad_neg_cost"
    /\ neg_cost' = get_cost(heap)
    /\ cost_evaluations' = cost_evaluations + 1
    /\ pc' = "grad_neg_restore"
    /\ UNCHANGED <<heap, labels, keepouts, iteration, movement, cost, unknowns,
                   dcost, i, pos_cost, starting_cost, dcost_norm,
                   descent_vectors, tangency, new_cost, stdout, returned,
                   bounds, overlap_vars>>

\* self.restore_unknown(i, unknowns); dcost[i] = ...; next i
GradNegRestore ==
    /\ pc = "grad_neg_restore"
    /\ heap' = restore_unknown(heap, i, unknowns)
    /\ dcost' = [dcost EXCEPT ![i + 1] = Round(pos_cost - neg_cost, 2 * delta)]
    /\ i' = i + 1
    /\ pc' = IF i + 1 < 2 * Len(labels) THEN "grad_pos_adjust" ELSE "norm"
    /\ UNCHANGED <<labels, keepouts, iteration, movement, cost, unknowns,
                   pos_cost, neg_cost, starting_cost, dcost_norm,
                   descent_vectors, tangency, new_cost, cost_evaluations,
                   stdout, returned, bounds, overlap_vars>>

\* starting_cost, dcost_norm and the zero-gradient break
CheckNorm ==
    /\ pc = "norm"
    /\ starting_cost' = cost
    /\ dcost_norm' = norm(dcost)
    /\ IF dcost_norm_is_zero(norm(dcost))
       THEN /\ stdout' = Append(stdout,
                                Line("WARNING: Reached local minimum", <<>>))
            /\ returned' = <<>>
            /\ pc' = "done"
       ELSE /\ stdout' = Append(stdout, Line("%s", dcost))
            /\ UNCHANGED returned
            /\ pc' = "normalize"
    /\ UNCHANGED <<heap, labels, keepouts, iteration, movement, cost, unknowns,
                   dcost, i, pos_cost, neg_cost, descent_vectors, tangency,
                   new_cost, cost_evaluations, bounds, overlap_vars>>

\* unit direction, tangency and the two tangency adjustments of movement
Normalize ==
    /\ pc = "normalize"
    /\ IF dcost_norm = 0
       THEN /\ pc' = "ZeroDivisionError"
            /\ UNCHANGED <<dcost, descent_vectors, tangency, movement, stdout>>
       ELSE LET d == unit_vector(dcost, dcost_norm)
                dv == Append(descent_vectors, d)
                t == IF Len(dv) >= 2 THEN dot(dv[Len(dv) - 1], dv[Len(dv)])
                     ELSE 0
                low == iteration > 0 /\ t * 10 < 9 * UnitScale * UnitScale
                high == t * 100 > 95 * UnitScale * UnitScale
                m1 == IF low THEN cutback(movement) ELSE movement
                m2 == IF high THEN min(m1 * 2, max_movement) ELSE m1
            IN  /\ dcost' = d
                /\ descent_vectors' = dv
                /\ tangency' = t
                /\ movement' = m2
                /\ stdout' = stdout
                     \o (IF Len(dv) >= 2
                         THEN <<Line("- tangency=%g", <<t>>)>> ELSE <<>>)
                     \o (IF low
                         THEN <<Line("- cutback due to tangency", <<>>)>>
                         ELSE <<>>)
                     \o <<Line("- dphi = %s", d)>>
                /\ pc' = "trial_apply"
    /\ UNCHANGED <<heap, labels, keepouts, iteration, cost, unknowns, i,
                   pos_cost, neg_cost, starting_cost, dcost_norm, new_cost,
                   cost_evaluations, returned, bounds, overlap_vars>>

\* for i in range(len(unknowns)): self.adjust_unknown(i, movement * dcost[i])
TrialApply ==
    /\ pc = "trial_apply"
    /\ heap' = adjust_all(heap, 0, movement, dcost)
    /\ pc' = "trial_cost"
    /\ UNCHANGED <<labels, keepouts, anneal_locals, stdout, returned, bounds,
                   overlap_vars>>

\* new_cost = self.get_cost()
TrialCost ==
    /\ pc = "trial_cost"
    /\ new_cost' = get_cost(heap)
    /\ pc' = "trial_check"
    /\ UNCHANGED <<heap, labels, keepouts, iteration, movement, cost, unknowns,
                   dcost, i, pos_cost, neg_cost, starting_cost, dcost_norm,
                   descent_vectors, tangency, cost_evaluations, stdout,
                   returned, bounds, overlap_vars>>

\* if new_cost >= starting_cost: cut back, restore, retry or give up
TrialReject ==
    /\ pc = "trial_check"
    /\ new_cost >= starting_cost
    /\ stdout' = Append(stdout, Line("- cutback due to increased cost", <<>>))
    /\ heap' = restore_all(heap, 0, unknowns)
    /\ IF cutback(movement) <= min_movement
       THEN /\ movement' = 0
            /\ pc' = "moved"
       ELSE /\ movement' = cutback(movement)
            /\ pc' = "trial_apply"
    /\ UNCHANGED <<labels, keepouts, iteration, cost, unknowns, dcost, i,
                   pos_cost, neg_cost, starting_cost, dcost_norm,
                   descent_vectors, tangency, new_cost, cost_evaluations,
                   returned, bounds, overlap_vars>>

\* the cost went down: leave the while loop with the step applied
TrialAccept ==
    /\ pc = "trial_check"
    /\ ~(new_cost >= starting_cost)
    /\ pc' = "moved"
    /\ UNCHANGED <<heap, labels, keepouts, anneal_locals, stdout, returned,
                   bounds, overlap_vars>>

\* print('- moved by %g'); movement <= min_movement: print and break
MinimumMovement ==
    /\ pc = "moved"
    /\ movement <= min_movement
    /\ stdout' = stdout
         \o <<Line("- moved by %g", <<movement>>),
              Line("minimum movement after %d iterations", <<iteration>>)>>
    /\ returned' = <<>>
    /\ pc' = "done"
    /\ UNCHANGED <<heap, labels, keepouts, anneal_locals, bounds, overlap_vars>>

\* print('- moved by %g'); the loop goes on with the next iteration
NextIteration ==
    /\ pc = "moved"
    /\ ~(movement <= min_movement)
    /\ iteration + 1 < max_iteration_count
    /\ stdout' = Append(stdout, Line("- moved by %g", <<movement>>))
    /\ iteration' = iteration + 1
    /\ pc' = "for"
    /\ UNCHANGED <<heap, labels, keepouts, movement, cost, unknowns, dcost, i,
                   pos_cost, neg_cost, starting_cost, dcost_norm,
                   descent_vectors, tangency, new_cost, cost_evaluations,
                   returned, bounds, overlap_vars>>

\* print('- moved by %g'); range(max_iteration_count) is used up
Exhausted ==
    /\ pc = "moved"
    /\ ~(movement <= min_movement)
    /\ ~(iteration + 1 < max_iteration_count)
    /\ stdout' = Append(stdout, Line("- moved by %g", <<movement>>))
    /\ returned' = <<>>
    /\ pc' = "done"
    /\ UNCHANGED <<heap, labels, keepouts, anneal_locals, bounds, overlap_vars>>

\* print('\n\n\n'); problem.get_cost(verbose=True); problem.draw()
Draw ==
    /\ pc = "done"
    /\ stdout' = Append(stdout, Line("", <<>>)) \o get_cost_verbose(heap)
    /\ bounds' = <<get_bounds(heap)>>
    /\ pc' = "drawn"
    /\ UNCHANGED <<heap, labels, keepouts, anneal_locals, returned,
                   overlap_vars>>

Next ==
    \/ AnnealCall
    \/ IterationStart
    \/ GradAdjustPos
    \/ GradPosCost
    \/ GradPosRestore
    \/ GradAdjustNeg
    \/ GradNegCost
    \/ GradNegRestore
    \/ CheckNorm
    \/ Normalize
    \/ TrialApply
    \/ TrialCost
    \/ TrialReject
    \/ TrialAccept
    \/ MinimumMovement
    \/ NextIteration
    \/ Exhausted
    \/ Draw

Spec == Init /\ [][Next]_vars

(***************************************************************************)
(* A stand-alone call get_overlap(a, b, c, d).                             *)
(***************************************************************************)
InitOverlap ==
    /\ ov_args \in (0..MaxEnd) \X (0..MaxEnd) \X (0..MaxEnd) \X (0..MaxEnd)
    /\ ov_pc = "call"
    /\ ov_ret = 0
    /\ heap = <<>>
    /\ labels = <<>>
    /\ keepouts = <<>>
    /\ pc = "unused"
    /\ InitLocals

\* assert a <= b; assert c <= d; return ...
OverlapCall ==
    /\ ov_pc = "call"
    /\ IF ov_args[1] <= ov_args[2] /\ ov_args[3] <= ov_args[4]
       THEN /\ ov_ret' = get_overlap(ov_args[1], ov_args[2],
                                     ov_args[3], ov_args[4])
            /\ ov_pc' = "returned"
       ELSE /\ ov_ret' = ov_ret
            /\ ov_pc' = "AssertionError"
    /\ UNCHANGED <<heap, labels, keepouts, pc, anneal_locals, stdout, returned,
                   bounds, ov_args>>

NextOverlap == OverlapCall

SpecOverlap == InitOverlap /\ [][NextOverlap]_vars

(***************************************************************************)
(* Properties of get_overlap (checked under SpecOverlap).                  *)
(***************************************************************************)
StrictlyInside(c, d, a, b) == a < c /\ d < b

\* C3 as stated: for a <= b and c <= d, get_overlap(a, b, c, d) is
\* max(0, min(b, d) - max(a, c)), the length of the intersection of [a, b]
\* and [c, d], also when one interval lies strictly inside the other.
C3_IntersectionLength ==
    ov_pc = "returned" =>
        ov_ret = max(0, min(ov_args[2], ov_args[4]) - max(ov_args[1], ov_args[3]))

\* C3 amended: get_overlap is the length of the intersection unless one
\* interval lies strictly inside the other; there it is the length of the
\* inner interval plus the smaller of the two gaps that separate its ends
\* from the ends of the outer interval.
C3_IntersectionUnlessNested ==
    ov_pc = "returned" =>
        LET a == ov_args[1]
            b == ov_args[2]
            c == ov_args[3]
            d == ov_args[4]
        IN  IF StrictlyInside(c, d, a, b)
            THEN ov_ret = (d - c) + min(c - a, b - d)
            ELSE IF StrictlyInside(a, b, c, d)
            THEN ov_ret = (b - a) + min(a - c, d - b)
            ELSE ov_ret = max(0, min(b, d) - max(a, c))

C3_NestedCall ==
    /\ ov_pc = "returned"
    /\ ov_args = <<0, 10, 2, 8>>
    /\ ov_ret = 8

\* C4: get_overlap is symmetric in its two intervals, is 0 for disjoint
\* intervals, is b - a for two identical intervals, and has the values of
\* the five unit tests of the module.
C4_SymmetryAndUnitTests ==
    ov_pc = "returned" =>
        LET a == ov_args[1]
            b == ov_args[2]
            c == ov_args[3]
            d == ov_args[4]
        IN  /\ ov_ret = get_overlap(c, d, a, b)
            /\ (b <= c \/ d <= a) => ov_ret = 0
            /\ (a = c /\ b = d) => ov_ret = b - a
            /\ ov_args = <<0, 1, 2, 3>> => ov_ret = 0
            /\ ov_args = <<0, 2, 1, 3>> => ov_ret = 1
            /\ ov_args = <<0, 10, 8, 10>> => ov_ret = 2
            /\ ov_args = <<0, 10, 8, 14>> => ov_ret = 2
            /\ ov_args = <<0, 10, 2, 8>> => ov_ret = 8

C4_UnitTestCall ==
    /\ ov_pc = "returned"
    /\ ov_args = <<0, 10, 8, 14>>
    /\ ov_ret = 2

(***************************************************************************)
(* Properties of Layout.anneal and Layout.get_bounds (checked under        *)
(* Spec).                                                                  *)
(***************************************************************************)
IsLocation(r) == \E k \in DOMAIN labels : labels[k].location = r

LocationIndex(r) == CHOOSE k \in DOMAIN labels : labels[k].location = r

\* the heap with every label placed as the unknown vector u says
PlacedAt(u) ==
    [r \in DOMAIN heap |->
        IF IsLocation(r)
        THEN Point2D(u[2 * LocationIndex(r) - 1], u[2 * LocationIndex(r)])
        ELSE heap[r]]

\* the heap with every label on its anchor, as construction leaves it
OnAnchors ==
    [r \in DOMAIN heap |->
        IF IsLocation(r) THEN heap[labels[LocationIndex(r)].optimal]
        ELSE heap[r]]

LastLine == stdout[Len(stdout)].msg

\* which way the loop was left; meaningful when pc = "done"
ExitPath ==
    IF LastLine = "WARNING: Reached local minimum" THEN "zero_gradient"
    ELSE IF LastLine = "minimum movement after %d iterations"
    THEN "min_movement"
    ELSE "exhausted"

Printed(msg) == \E k \in DOMAIN stdout : stdout[k].msg = msg

\* C1: when an iteration leaves the while loop the cost is at most
\* starting_cost, which is the cost of the snapshot; a step is left applied
\* only if it made the cost strictly lower; every retry starts from the
\* snapshot; and the cost when anneal returns is at most the cost of the
\* layout it was called on.
C1_CostNeverRises ==
    /\ pc = "moved" =>
          /\ starting_cost = get_cost(PlacedAt(unknowns))
          /\ get_cost(heap) <= starting_cost
          /\ get_unknowns(heap) # unknowns => get_cost(heap) < starting_cost
    /\ pc = "trial_apply" => get_unknowns(heap) = unknowns
    /\ pc = "done" => get_cost(heap) <= get_cost(OnAnchors)

C1_RejectedThenImproved ==
    /\ pc = "done"
    /\ Printed("- cutback due to increased cost")
    /\ get_cost(heap) < get_cost(OnAnchors)

\* steps left in the current iteration, counted from the end: the while
\* loop is ranked by movement, the gradient loop by the unknowns left
PhaseRank ==
    LET G == 4 * max_movement + 6
        left == 6 * (2 * Len(labels) - i)
    IN  CASE pc = "moved" -> 0
          [] pc = "trial_check" -> 4 * movement + 1
          [] pc = "trial_cost" -> 4 * movement + 2
          [] pc = "trial_apply" -> 4 * movement + 3
          [] pc = "normalize" -> G - 2
          [] pc = "norm" -> G - 1
          [] pc = "grad_neg_restore" -> G + left - 5
          [] pc = "grad_neg_cost" -> G + left - 4
          [] pc = "grad_neg_adjust" -> G + left - 3
          [] pc = "grad_pos_restore" -> G + left - 2
          [] pc = "grad_pos_cost" -> G + left - 1
          [] pc = "grad_pos_adjust" -> G + left
          [] pc = "for" -> G + 12 * Len(labels) + 1
          [] OTHER -> 0

\* the positions of the script; each has a step that can be taken, except
\* "drawn", the end of the script
ProgramPositions ==
    {"anneal", "for", "grad_pos_adjust", "grad_pos_cost", "grad_pos_restore",
     "grad_neg_adjust", "grad_neg_cost", "grad_neg_restore", "norm",
     "normalize", "trial_apply", "trial_cost", "trial_check", "moved", "done",
     "drawn"}

IterationSpan == 4 * max_movement + 12 * Len(labels) + 8

\* a natural number that every step of the program makes smaller
Rank ==
    CASE pc = "drawn" -> 0
      [] pc = "done" -> 1
      [] pc = "anneal" -> 2 + max_iteration_count * IterationSpan
      [] OTHER -> 2 + (max_iteration_count - 1 - iteration) * IterationSpan
                    + PhaseRank

\* C2: anneal terminates.  The loop variable stays below
\* max_iteration_count; a failed trial that is retried has at least halved
\* movement; every step of the program lowers a natural-number rank, so no
\* run takes infinitely many steps; the program is always at a position
\* that has a next step until anneal returns (it never stops on an error);
\* and it returns on a zero gradient, on a step size at/below min_movement,
\* or by the cap in iteration max_iteration_count - 1.
C2_Terminates ==
    /\ [](iteration < max_iteration_count /\ Rank >= 0)
    /\ [](pc \in ProgramPositions)
    /\ [][Rank' < Rank]_vars
    /\ [][(pc = "trial_check" /\ pc' = "trial_apply")
            => 2 * movement' <= movement]_vars
    /\ [](pc = "done" =>
            /\ ExitPath = "zero_gradient" => dcost_norm = 0
            /\ ExitPath = "min_movement" => movement <= min_movement
            /\ ExitPath = "exhausted" =>
                  /\ iteration = max_iteration_count - 1
                  /\ movement > min_movement)

C2_ExhaustedRun ==
    /\ pc = "done"
    /\ ExitPath = "exhausted"
    /\ iteration = max_iteration_count - 1

\* C5: a step of the program changes no Label record and no point other
\* than the location of a label, which is never also an anchor or a point of
\* a keepout; a perturbation or restore of unknown i changes only the x
\* (i even) or y (i odd) coordinate of the location of label i // 2; and
\* every keepout stays where it was constructed, on its anchor.
C5_OnlyLabelLocationsChange ==
    /\ [](\A k \in DOMAIN keepouts :
            heap[keepouts[k].location] = heap[keepouts[k].optimal])
    /\ [][/\ labels' = labels
          /\ keepouts' = keepouts
          /\ DOMAIN heap' = DOMAIN heap
          /\ \A r \in DOMAIN heap :
                heap'[r] # heap[r] =>
                   /\ IsLocation(r)
                   /\ \A k \in DOMAIN labels : labels[k].optimal # r
                   /\ \A k \in DOMAIN keepouts :
                         keepouts[k].optimal # r /\ keepouts[k].location # r
          /\ pc \in {"grad_pos_adjust", "grad_pos_restore",
                     "grad_neg_adjust", "grad_neg_restore"} =>
                \A r \in DOMAIN heap :
                   heap'[r] # heap[r] =>
                      /\ r = labels[(i \div 2) + 1].location
                      /\ i % 2 = 0 => heap'[r].y = heap[r].y
                      /\ i % 2 = 1 => heap'[r].x = heap[r].x]_vars

C5_LabelMovedOffAnchor ==
    /\ pc = "done"
    /\ Len(keepouts) > 0
    /\ \E k \in DOMAIN labels :
          heap[labels[k].location] # heap[labels[k].optimal]

DiffersOnlyAt(index, amount) ==
    \A k \in 1..Len(unknowns) :
        get_unknowns(heap)[k]
          = unknowns[k] + (IF k = index + 1 THEN amount ELSE 0)

C10_ZeroGradientStops ==
    /\ pc # "ZeroDivisionError"
    /\ pc = "normalize" => dcost_norm # 0
    /\ (pc = "done" /\ ExitPath = "zero_gradient") =>
          /\ dcost_norm = 0
          /\ get_unknowns(heap) = unknowns
          /\ Len(descent_vectors) = iteration
    /\ (pc = "done" /\ get_cost(OnAnchors) = 0) => heap = OnAnchors

C10_StoppedOnZeroGradient ==
    /\ pc = "done"
    /\ ExitPath = "zero_gradient"
    /\ Len(labels) = 2
    /\ get_cost(OnAnchors) = 0

\* C9 as stated: a step left applied has min_movement < movement <=
\* max_movement, and a run that ends because the step size is at/below
\* min_movement leaves every label where it was at the start of that
\* iteration.
C9_AppliedStepAboveMinimum ==
    /\ (pc = "moved" /\ get_unknowns(heap) # unknowns) =>
          (min_movement < movement /\ movement <= max_movement)
    /\ (pc = "done" /\ ExitPath = "min_movement") =>
          get_unknowns(heap) = unknowns

\* the messages of the program that carry one number which is not a cost
CountAndStepMessages ==
    {"On iteration %d:", "- tangency=%g", "- moved by %g",
     "minimum movement after %d iterations"}

\* C6 as stated: on every exit path the solver reports the iteration count
\* and the final cost, handed back to the caller as (final_cost,
\* iteration_count, converged) or at least printed, and the caller is told
\* whether the run converged.
C6_ExitReport ==
    pc = "done" =>
        /\ \/ Len(returned) = 3 /\ returned[2] = iteration + 1
           \/ \E k \in DOMAIN stdout :
                 /\ stdout[k].msg \in {"On iteration %d:",
                                       "minimum movement after %d iterations"}
                 /\ stdout[k].args = <<iteration>>
        /\ \/ Len(returned) = 3 /\ returned[1] = get_cost(heap)
           \/ \E k \in DOMAIN stdout :
                 /\ stdout[k].msg \notin CountAndStepMessages
                 /\ stdout[k].args = <<get_cost(heap)>>
        /\ Len(returned) = 3 /\ returned[3] = (ExitPath # "exhausted")

NonEmptyAsClaimed(r) ==
    ~(r.bottom_left.x > r.top_right.x \/ r.bottom_left.y > r.top_right.y)

SetMin(S) == CHOOSE x \in S : \A y \in S : x <= y

SetMax(S) == CHOOSE x \in S : \A y \in S : x >= y

\* C7 as stated: get_bounds returns the union bounding box of every label and
\* keepout rectangle that is non-empty, where only bottom_left.x >
\* top_right.x or bottom_left.y > top_right.y makes a rectangle empty, so
\* that a rectangle of width or height zero lies inside the bounds.
C7_BoundsContainEveryRectangle ==
    pc = "drawn" =>
        LET rs == {rectangles_of(heap)[k] : k \in DOMAIN rectangles_of(heap)}
            ne == {r \in rs : NonEmptyAsClaimed(r)}
        IN  ne # {} =>
              /\ bounds[1].bottom_left.x = SetMin({r.bottom_left.x : r \in ne})
              /\ bounds[1].bottom_left.y = SetMin({r.bottom_left.y : r \in ne})
              /\ bounds[1].top_right.x = SetMax({r.top_right.x : r \in ne})
              /\ bounds[1].top_right.y = SetMax({r.top_right.y : r \in ne})

====
